---- MODULE Spec2Model ----
(***************************************************************************)
(* ColorLab (NgdMav/Lab1PKG): colour conversions of models.py, the widget *)
(* signal wiring of ui_controls.py and the synchronisation controller of  *)
(* main.py.                                                                *)
(*                                                                         *)
(* Numbers: a Python float is modelled as an exact rational <<n, d>> in    *)
(* lowest terms with d > 0.  Strings are sequences of one-character        *)
(* strings.  A Python call that may raise is modelled as a record          *)
(* [err |-> "none" or the exception's name, val |-> the returned value].   *)
(* A local of the source that is read several times is a parameter of a   *)
(* helper operator (x_of, x_with) that holds the rest of the function.     *)
(***************************************************************************)
EXTENDS Integers, Sequences, FiniteSets, TLC

\* ------------------------------------------------------------------------
\* Bounds of the exploration
\* ------------------------------------------------------------------------
\* number of user events explored from start-up
MaxEdits == 2
\* a user moves a channel to one of Levels + 1 evenly spread positions
Levels == 2
\* an edit is explored only when the product of the denominators of the
\* edited panel's values stays within this (the exact arithmetic then fits
\* TLC's 32-bit integers)
MaxDenominator == 40000

\* ------------------------------------------------------------------------
\* Exact rational arithmetic standing for Python's float operators
\* ------------------------------------------------------------------------
Abs(x) == IF x < 0 THEN -x ELSE x

RECURSIVE GCD(_, _)
GCD(a, b) == IF b = 0 THEN a ELSE GCD(b, a % b)

NormBy(n, d, g) == IF d < 0 THEN <<(-n) \div g, (-d) \div g>> ELSE <<n \div g, d \div g>>
\* n/d in lowest terms with a positive denominator
Norm(n, d) == NormBy(n, d, GCD(Abs(n), Abs(d)))

Q(n, d) == Norm(n, d)
I(n) == <<n, 1>>

AddBy(x, y, g) ==
    Norm(x[1] * (y[2] \div g) + y[1] * (x[2] \div g), (x[2] \div g) * y[2])
RAdd(x, y) ==
    IF y[2] = 1 THEN <<x[1] + y[1] * x[2], x[2]>>
    ELSE IF x[2] = 1 THEN <<x[1] * y[2] + y[1], y[2]>>
    ELSE AddBy(x, y, GCD(x[2], y[2]))
RNeg(x) == <<-x[1], x[2]>>
RSub(x, y) == RAdd(x, RNeg(y))
\* the factors are reduced crosswise first, so the product is in lowest terms
MulOf(a, b) == <<a[1] * b[1], a[2] * b[2]>>
RMul(x, y) == MulOf(Norm(x[1], y[2]), Norm(y[1], x[2]))
\* x / y for y # 0 (the callers raise ZeroDivisionError first)
RDiv(x, y) == RMul(x, IF y[1] < 0 THEN <<-y[2], -y[1]>> ELSE <<y[2], y[1]>>)
LtBy(x, y, g) == x[1] * (y[2] \div g) < y[1] * (x[2] \div g)
RLt(x, y) ==
    IF x[2] = y[2] THEN x[1] < y[1]
    ELSE IF y[2] = 1 THEN x[1] < y[1] * x[2]
    ELSE IF x[2] = 1 THEN x[1] * y[2] < y[1]
    ELSE LtBy(x, y, GCD(x[2], y[2]))
RLe(x, y) == ~RLt(y, x)
RMax2(x, y) == IF RLt(x, y) THEN y ELSE x
RMin2(x, y) == IF RLt(y, x) THEN y ELSE x
RMax3(x, y, z) == RMax2(RMax2(x, y), z)
RMin3(x, y, z) == RMin2(RMin2(x, y), z)
RFloor(x) == x[1] \div x[2]
\* Python's float % for a positive integer modulus: result in [0, m)
RMod(x, m) == RSub(x, I(m * (x[1] \div (x[2] * m))))
RIsZero(x) == x[1] = 0
\* max(lo, min(hi, x)) for integers lo <= hi
RClamp(lo, hi, x) ==
    IF x[1] > hi * x[2] THEN I(hi) ELSE IF x[1] < lo * x[2] THEN I(lo) ELSE x

RoundFrom(n, d, f) ==
    IF 2 * (n - f * d) < d THEN f
    ELSE IF 2 * (n - f * d) > d THEN f + 1
    ELSE IF f % 2 = 0 THEN f ELSE f + 1
\* Python round(x): nearest integer, ties to the even one
PyRound(x) == RoundFrom(x[1], x[2], x[1] \div x[2])

\* Python round(x, 2)
PyRound2(x) == Q(PyRound(RMul(x, I(100))), 100)

\* ------------------------------------------------------------------------
\* models.py
\* ------------------------------------------------------------------------
Ok(v) == [err |-> "none", val |-> v]
Raise(e) == [err |-> e, val |-> <<>>]

\* ---- RGB <-> HLS --------------------------------------------------------
\* the hue before `h = (h * 60.0) % 360.0`
hls_hue6(r, g, b, maxc, diff) ==
    IF maxc = r THEN RDiv(RSub(g, b), diff)
    ELSE IF maxc = g THEN RAdd(I(2), RDiv(RSub(b, r), diff))
    ELSE RAdd(I(4), RDiv(RSub(r, g), diff))

\* srgb_to_hls once the divisor of s is known; dividing by zero raises
hls_with(r, g, b, maxc, l, diff, sden) ==
    IF RIsZero(sden) THEN Raise("ZeroDivisionError")
    ELSE Ok(<<RMod(RMul(hls_hue6(r, g, b, maxc, diff), I(60)), 360),
              RMul(l, I(100)),
              RMul(RDiv(diff, sden), I(100))>>)

\* srgb_to_hls from `l = (maxc + minc) / 2.0` on
hls_of(r, g, b, maxc, minc, l) ==
    IF maxc = minc THEN Ok(<<I(0), RMul(l, I(100)), I(0)>>)
    ELSE hls_with(r, g, b, maxc, l, RSub(maxc, minc),
                  IF RLe(l, Q(1, 2)) THEN RAdd(maxc, minc)
                  ELSE RSub(RSub(I(2), maxc), minc))

hls_maxmin(r, g, b, maxc, minc) ==
    hls_of(r, g, b, maxc, minc, RDiv(RAdd(maxc, minc), I(2)))

srgb_to_hls(rgb) ==
    hls_maxmin(rgb[1], rgb[2], rgb[3],
               RMax3(rgb[1], rgb[2], rgb[3]), RMin3(rgb[1], rgb[2], rgb[3]))

\* the four segments of hue_to_rgb, h already wrapped
hue_segment(m1, m2, h) ==
    IF RLt(h, Q(1, 6)) THEN RAdd(m1, RMul(RMul(RSub(m2, m1), I(6)), h))
    ELSE IF RLt(h, Q(1, 2)) THEN m2
    ELSE IF RLt(h, Q(2, 3))
         THEN RAdd(m1, RMul(RMul(RSub(m2, m1), RSub(Q(2, 3), h)), I(6)))
    ELSE m1

\* `if h > 1: h -= 1`
hue_wrap_high(h) == IF RLt(I(1), h) THEN RSub(h, I(1)) ELSE h
\* `if h < 0: h += 1`
hue_wrap_low(h) == IF RLt(h, I(0)) THEN RAdd(h, I(1)) ELSE h

hue_to_rgb(m1, m2, h) == hue_segment(m1, m2, hue_wrap_high(hue_wrap_low(h)))

hls_channels(h, m1, m2) ==
    <<hue_to_rgb(m1, m2, RAdd(h, Q(1, 3))),
      hue_to_rgb(m1, m2, h),
      hue_to_rgb(m1, m2, RSub(h, Q(1, 3)))>>

\* hls_to_srgb from `m1 = 2.0 * l - m2` on
hls_m1(h, l, m2) == hls_channels(h, RSub(RMul(I(2), l), m2), m2)

\* hls_to_srgb from `if s == 0.0` on
hls_rgb(h, l, s) ==
    IF RIsZero(s) THEN <<l, l, l>>
    ELSE hls_m1(h, l, IF RLe(l, Q(1, 2)) THEN RMul(l, RAdd(I(1), s))
                      ELSE RSub(RAdd(l, s), RMul(l, s)))

\* s = s_pct / 100.0, without the clamp to 0..100
hls_s_unclamped(s_pct) == RDiv(s_pct, I(100))

\* s = max(0.0, min(100.0, s_pct)) / 100.0
hls_s(s_pct) == RDiv(RClamp(0, 100, s_pct), I(100))

hls_to_srgb(hls) ==
    hls_rgb(RDiv(RMod(hls[1], 360), I(360)),
            RDiv(RClamp(0, 100, hls[2]), I(100)),
            hls_s(hls[3]))

\* ---- RGB <-> CMYK -------------------------------------------------------
\* k >= 1.0 - 1e-12, that is 1 - k <= 10^-12; n/d <= 10^-12 iff
\* n <= floor(d / 10^12)
near_black(k) == (k[2] - k[1]) <= (k[2] \div 1000000) \div 1000000

cmyk_channel(x, k) == RMul(RDiv(RSub(RSub(I(1), x), k), RSub(I(1), k)), I(100))

cmyk_with(r, g, b, k) ==
    IF near_black(k) THEN <<I(0), I(0), I(0), I(100)>>
    ELSE <<cmyk_channel(r, k), cmyk_channel(g, k), cmyk_channel(b, k),
           RMul(k, I(100))>>

cmyk_of(r, g, b) == cmyk_with(r, g, b, RSub(I(1), RMax3(r, g, b)))

srgb_to_cmyk(rgb) ==
    cmyk_of(RClamp(0, 1, rgb[1]), RClamp(0, 1, rgb[2]), RClamp(0, 1, rgb[3]))

cmyk_rgb(c, m, y, k) ==
    <<RClamp(0, 1, RMul(RSub(I(1), c), RSub(I(1), k))),
      RClamp(0, 1, RMul(RSub(I(1), m), RSub(I(1), k))),
      RClamp(0, 1, RMul(RSub(I(1), y), RSub(I(1), k)))>>

cmyk_to_srgb(cmyk) ==
    cmyk_rgb(RDiv(RClamp(0, 100, cmyk[1]), I(100)),
             RDiv(RClamp(0, 100, cmyk[2]), I(100)),
             RDiv(RClamp(0, 100, cmyk[3]), I(100)),
             RDiv(RClamp(0, 100, cmyk[4]), I(100)))

\* ---- HEX utilities -----------------------------------------------------
UpperDigits ==
    <<"0", "1", "2", "3", "4", "5", "6", "7", "8", "9", "A", "B", "C", "D", "E", "F">>
LowerDigits ==
    <<"0", "1", "2", "3", "4", "5", "6", "7", "8", "9", "a", "b", "c", "d", "e", "f">>

\* "{:02X}".format(v) for 0 <= v <= 255
fmt_02X(v) == <<UpperDigits[(v \div 16) + 1], UpperDigits[(v % 16) + 1]>>

\* a channel cut down to a whole number of 255ths instead of rounded
channel_byte_floor(x) == RFloor(RMul(RClamp(0, 1, x), I(255)))

\* int(round(max(0.0, min(1.0, x)) * 255.0))
channel_byte(x) == PyRound(RMul(RClamp(0, 1, x), I(255)))

srgb_to_hex(rgb) ==
    <<"#">> \o fmt_02X(channel_byte(rgb[1])) \o fmt_02X(channel_byte(rgb[2]))
            \o fmt_02X(channel_byte(rgb[3]))

IsHexDigit(c) == \E i \in 1..16 : UpperDigits[i] = c \/ LowerDigits[i] = c
HexVal(c) == (CHOOSE i \in 1..16 : UpperDigits[i] = c \/ LowerDigits[i] = c) - 1
IsSpace(c) == c \in {" ", "\t"}

\* str.strip(): drop the whitespace at both ends
RECURSIVE lstrip(_)
lstrip(s) == IF s # <<>> /\ IsSpace(Head(s)) THEN lstrip(Tail(s)) ELSE s
RECURSIVE rstrip(_)
rstrip(s) ==
    IF s # <<>> /\ IsSpace(s[Len(s)]) THEN rstrip(SubSeq(s, 1, Len(s) - 1)) ELSE s
strip(s) == rstrip(lstrip(s))

\* value of a digit string in which int() allows single underscores between
\* digits
RECURSIVE digits_value(_, _)
digits_value(s, acc) ==
    IF s = <<>> THEN acc
    ELSE IF Head(s) = "_" THEN digits_value(Tail(s), acc)
    ELSE digits_value(Tail(s), 16 * acc + HexVal(Head(s)))

digits_ok(s) ==
    /\ s # <<>>
    /\ \A i \in 1..Len(s) : IsHexDigit(s[i]) \/ s[i] = "_"
    /\ s[1] # "_" /\ s[Len(s)] # "_"
    /\ \A i \in 1..(Len(s) - 1) : ~(s[i] = "_" /\ s[i + 1] = "_")

\* the literal after the optional sign int() accepts
int16_body(t) == IF t # <<>> /\ Head(t) \in {"+", "-"} THEN Tail(t) ELSE t

int16_of(t, body) ==
    IF ~digits_ok(body) THEN Raise("ValueError")
    ELSE IF Head(t) = "-" THEN Ok(-digits_value(body, 0))
    ELSE Ok(digits_value(body, 0))

int16_stripped(t) == int16_of(t, int16_body(t))

\* Python int(s, 16) on a slice of at most two characters: whitespace around
\* the literal is stripped and one leading sign is accepted (a "0x" prefix
\* leaves no digit in two characters and is rejected like any other text)
py_int16(s) == int16_stripped(strip(s))

hex_channels(r, g, b) ==
    IF r.err # "none" \/ g.err # "none" \/ b.err # "none" THEN Raise("ValueError")
    ELSE Ok(<<Q(r.val, 255), Q(g.val, 255), Q(b.val, 255)>>)

hex_digits(s) ==
    IF Len(s) # 6 THEN Raise("ValueError")
    ELSE hex_channels(py_int16(SubSeq(s, 1, 2)), py_int16(SubSeq(s, 3, 4)),
                      py_int16(SubSeq(s, 5, 6)))

\* `if s.startswith("#"): s = s[1:]`
strip_hash(s) == IF s # <<>> /\ Head(s) = "#" THEN Tail(s) ELSE s

hex_to_srgb(hex_str) == hex_digits(strip_hash(strip(hex_str)))

\* ---- small helpers -----------------------------------------------------
clamp01(x) == IF RLt(x, I(0)) THEN I(0) ELSE IF RLt(I(1), x) THEN I(1) ELSE x

rgb_norm_to_ui(rgb) ==
    <<PyRound(RMul(clamp01(rgb[1]), I(255))),
      PyRound(RMul(clamp01(rgb[2]), I(255))),
      PyRound(RMul(clamp01(rgb[3]), I(255)))>>

\* ---- convert-from/to for panels ----------------------------------------
from_ui(ui) == Ok(<<I(ui[1]), I(ui[2]), I(ui[3])>>)
from_cmyk(v) == Ok(<<PyRound2(v[1]), PyRound2(v[2]), PyRound2(v[3]), PyRound2(v[4])>>)
from_hls(v) ==
    IF v.err # "none" THEN v
    ELSE Ok(<<PyRound2(v.val[1]), PyRound2(v.val[2]), PyRound2(v.val[3])>>)

convert_from_srgb(panel_name, rgb_norm) ==
    IF panel_name = "RGB" THEN from_ui(rgb_norm_to_ui(rgb_norm))
    ELSE IF panel_name = "CMYK" THEN from_cmyk(srgb_to_cmyk(rgb_norm))
    ELSE IF panel_name = "HLS" THEN from_hls(srgb_to_hls(rgb_norm))
    ELSE Raise("ValueError")

byte_clamp(i) == IF i < 0 THEN 0 ELSE IF i > 255 THEN 255 ELSE i
\* max(0, min(255, int(round(v)))) / 255.0
rgb_descale(v) == Q(byte_clamp(PyRound(v)), 255)

hls_clamped(rgb, c) == Ok([rgb |-> c, clipped |-> c # rgb])
\* the HLS branch of convert_to_srgb after `rgb = hls_to_srgb((h, l, s))`
hls_clip(rgb) == hls_clamped(rgb, <<clamp01(rgb[1]), clamp01(rgb[2]), clamp01(rgb[3])>>)

convert_to_srgb(panel_name, values) ==
    IF panel_name = "RGB" THEN
        Ok([rgb |-> <<rgb_descale(values[1]), rgb_descale(values[2]),
                      rgb_descale(values[3])>>,
            clipped |-> FALSE])
    ELSE IF panel_name = "CMYK" THEN
        Ok([rgb |-> cmyk_to_srgb(values), clipped |-> FALSE])
    ELSE IF panel_name = "HLS" THEN hls_clip(hls_to_srgb(values))
    ELSE Raise("ValueError")

\* ------------------------------------------------------------------------
\* ui_controls.py
\* ------------------------------------------------------------------------
ChannelSpec(name, vmin, vmax, decimals, slider_scale) ==
    [name |-> name, vmin |-> vmin, vmax |-> vmax, decimals |-> decimals,
     slider_scale |-> slider_scale]

MODEL_SPECS ==
    [RGB  |-> <<ChannelSpec("R", 0, 255, 0, 1),
                ChannelSpec("G", 0, 255, 0, 1),
                ChannelSpec("B", 0, 255, 0, 1)>>,
     CMYK |-> <<ChannelSpec("C", 0, 100, 2, 100),
                ChannelSpec("M", 0, 100, 2, 100),
                ChannelSpec("Y", 0, 100, 2, 100),
                ChannelSpec("K", 0, 100, 2, 100)>>,
     HLS  |-> <<ChannelSpec("H", 0, 360, 2, 100),
                ChannelSpec("L", 0, 100, 2, 100),
                ChannelSpec("S", 0, 100, 2, 100)>>]

Models == DOMAIN MODEL_SPECS

\* QDoubleSpinBox.setValue: the value rounded to the box's decimals and kept
\* inside its range (the values given to it here never sit on a rounding tie)
spin_round(val, p) == Q(PyRound(RMul(val, I(p))), p)
spin_bound(spec, val) ==
    RClamp(spec.vmin, spec.vmax, spin_round(val, IF spec.decimals = 0 THEN 1 ELSE 100))

\* QSlider.setValue: the value kept inside the slider's range
slider_bound(spec, v) ==
    IF v < spec.vmin * spec.slider_scale THEN spec.vmin * spec.slider_scale
    ELSE IF v > spec.vmax * spec.slider_scale THEN spec.vmax * spec.slider_scale
    ELSE v

\* ChannelControl.__init__: a fresh spin box and slider hold 0, moved into the
\* range; the range is set before the signals are connected
ChannelControl(spec) ==
    [spec |-> spec, block |-> FALSE,
     spin |-> spin_bound(spec, I(0)), slider |-> slider_bound(spec, 0)]

\* The handlers of a control return [cc, emits]: the control afterwards and
\* the number of times it emitted valueChanged.  Qt's own valueChanged
\* signals (of the spin box, of the slider) fire only when the value changes.
RECURSIVE on_spin(_, _)
RECURSIVE on_slider(_, _)

\* `finally: self._block = False` and `self.valueChanged.emit(val)`
unblock_emit(r) == [cc |-> [r.cc EXCEPT !.block = FALSE], emits |-> r.emits + 1]

\* self.spin.setValue(val) under _block, and the slot of its signal
spin_setValue(cc, nv) ==
    IF nv # cc.spin THEN on_spin([cc EXCEPT !.block = TRUE, !.spin = nv], nv)
    ELSE [cc |-> [cc EXCEPT !.block = TRUE], emits |-> 0]

\* self.slider.setValue(sval) under _block, and the slot of its signal
slider_setValue(cc, ns) ==
    IF ns # cc.slider THEN on_slider([cc EXCEPT !.block = TRUE, !.slider = ns], ns)
    ELSE [cc |-> [cc EXCEPT !.block = TRUE], emits |-> 0]

\* _on_slider without `if self._block: return`
on_slider_unguarded(cc, v) ==
    unblock_emit(spin_setValue(cc, spin_bound(cc.spec, Q(v, cc.spec.slider_scale))))

on_slider(cc, v) ==
    IF cc.block THEN [cc |-> cc, emits |-> 0]
    ELSE unblock_emit(spin_setValue(cc, spin_bound(cc.spec, Q(v, cc.spec.slider_scale))))

on_spin(cc, val) ==
    IF cc.block THEN [cc |-> cc, emits |-> 0]
    ELSE unblock_emit(slider_setValue(cc,
            slider_bound(cc.spec, PyRound(RMul(val, I(cc.spec.slider_scale))))))

\* the second statement of setValue's try block, after the first gave r
add_emits(n, r) == [cc |-> r.cc, emits |-> n + r.emits]
then_slider(r, ns) == add_emits(r.emits, slider_setValue(r.cc, ns))

\* setValue without `finally: self._block = False`
setValue_stays_blocked(cc, val) ==
    then_slider(spin_setValue(cc, spin_bound(cc.spec, val)),
                slider_bound(cc.spec, PyRound(RMul(val, I(cc.spec.slider_scale)))))

\* `finally: self._block = False`
unblock(r) == [cc |-> [r.cc EXCEPT !.block = FALSE], emits |-> r.emits]

\* ChannelControl.setValue
setValue(cc, val) ==
    unblock(then_slider(spin_setValue(cc, spin_bound(cc.spec, val)),
                        slider_bound(cc.spec, PyRound(RMul(val, I(cc.spec.slider_scale))))))

\* ChannelControl.value
value(cc) == cc.spin

\* ModelPanel._on_any: the number of anyValueChanged signals that `emits`
\* valueChanged signals of the panel's controls cause
on_any(block, emits) == IF ~block THEN emits ELSE 0

\* ModelPanel._rebuild up to, and without, the modelChanged signal
rebuild(panel, model_name) ==
    [panel EXCEPT
        !.current_model = model_name,
        !.controls = [i \in 1..Len(MODEL_SPECS[model_name]) |->
                         ChannelControl(MODEL_SPECS[model_name][i])]]

\* ModelPanel.__init__ (no slot is connected to modelChanged yet)
ModelPanel(initial_model) ==
    rebuild([current_model |-> initial_model, controls |-> <<>>, block |-> FALSE],
            initial_model)

Min2(a, b) == IF a < b THEN a ELSE b

\* the loop `for cc, v in zip(self.controls, vals): cc.setValue(v)`, from
\* index i on; `any` counts the anyValueChanged signals it causes
RECURSIVE set_controls(_, _, _, _)
set_control(panel, vals, i, any, r) ==
    set_controls([panel EXCEPT !.controls[i] = r.cc], vals, i + 1,
                 any + on_any(panel.block, r.emits))
set_controls(panel, vals, i, any) ==
    IF i > Min2(Len(panel.controls), Len(vals)) THEN [panel |-> panel, any |-> any]
    ELSE set_control(panel, vals, i, any, setValue(panel.controls[i], vals[i]))

\* `finally: self._block = False` of set_from_srgb
panel_unblock(r) ==
    [panel |-> [r.panel EXCEPT !.block = FALSE], any |-> r.any, err |-> "none"]

\* set_from_srgb after `vals = convert_from_srgb(...)`, which may have raised
set_from_vals(panel, vals) ==
    IF vals.err # "none"
    THEN [panel |-> [panel EXCEPT !.block = FALSE], any |-> 0, err |-> vals.err]
    ELSE panel_unblock(set_controls([panel EXCEPT !.block = TRUE], vals.val, 1, 0))

\* ModelPanel.set_from_srgb; err is the exception that leaves it, if any
set_from_srgb(panel, rgb_norm) ==
    set_from_vals(panel, convert_from_srgb(panel.current_model, rgb_norm))

panel_values(panel) == [i \in 1..Len(panel.controls) |-> value(panel.controls[i])]

\* ModelPanel.to_srgb
to_srgb(panel) == convert_to_srgb(panel.current_model, panel_values(panel))

\* ------------------------------------------------------------------------
\* main.py: ColorLabApp
\* ------------------------------------------------------------------------
\* The application is the record
\*   [rgb, panels, hex_edit, hex_big, preview, info_label, warning_label, status]
\* where panels maps the attributes panel_cmyk, panel_rgb, panel_hls to their
\* ModelPanel.  A handler returns Result(...): the application after it ran,
\* the number of calls of _apply_rgb it made, the number of anyValueChanged
\* signals its refreshes emitted (each would call _panel_changed again), the
\* colour it gave _apply_rgb and the exception that left it.
PanelIds == {"panel_cmyk", "panel_rgb", "panel_hls"}
PanelOrder == <<"panel_cmyk", "panel_rgb", "panel_hls">>

Result(app, applies, reentries, candidate, err) ==
    [app |-> app, applies |-> applies, reentries |-> reentries,
     candidate |-> candidate, err |-> err]

\* QColor(r, g, b).name(): "#rrggbb" in lower case
qcolor_name(r, g, b) ==
    <<"#", LowerDigits[(r \div 16) + 1], LowerDigits[(r % 16) + 1],
           LowerDigits[(g \div 16) + 1], LowerDigits[(g % 16) + 1],
           LowerDigits[(b \div 16) + 1], LowerDigits[(b % 16) + 1]>>

\* the format {:.1f}
fmt_1f(x) == Q(PyRound(RMul(x, I(10))), 10)

\* a test that spares no panel
is_not_always(source, p) == TRUE

\* the test `source is not self.panel_x` of _apply_rgb
is_not(source, p) == source # p

\* the three `if source is not self.panel_x: self.panel_x.set_from_srgb(self.rgb)`
\* of _apply_rgb, from the i-th on
RECURSIVE refresh_panels(_, _, _, _, _)
refreshed(panels, rgb, source, i, any, p, r) ==
    refresh_panels([panels EXCEPT ![p] = r.panel], rgb, source, i + 1, any + r.any)
refresh_panels(panels, rgb, source, i, any) ==
    IF i > Len(PanelOrder) THEN [panels |-> panels, any |-> any]
    ELSE IF is_not(source, PanelOrder[i])
    THEN refreshed(panels, rgb, source, i, any, PanelOrder[i],
                   set_from_srgb(panels[PanelOrder[i]], rgb))
    ELSE refresh_panels(panels, rgb, source, i + 1, any)

\* _apply_rgb from the preview on
apply_shown(app, rgb, ref, hex, hls, cmyk, clipped) ==
    Result([app EXCEPT
                !.rgb = rgb,
                !.panels = ref.panels,
                !.preview = qcolor_name(PyRound(RMul(rgb[1], I(255))),
                                        PyRound(RMul(rgb[2], I(255))),
                                        PyRound(RMul(rgb[3], I(255)))),
                !.hex_edit = hex,
                !.hex_big = hex,
                !.info_label = <<fmt_1f(hls[1]), fmt_1f(hls[2]), fmt_1f(hls[3]),
                                 fmt_1f(cmyk[1]), fmt_1f(cmyk[2]), fmt_1f(cmyk[3]),
                                 fmt_1f(cmyk[4])>>,
                !.warning_label = IF clipped THEN "Clipping" ELSE ""],
           1, ref.any, <<>>, "none")

\* _apply_rgb from `self.rgb = (r, g, b)` on.  The colour is clamped, so
\* srgb_to_hls does not raise here.
apply_clamped(app, rgb, source, clipped) ==
    apply_shown(app, rgb, refresh_panels(app.panels, rgb, source, 1, 0),
                srgb_to_hex(rgb), srgb_to_hls(rgb).val, srgb_to_cmyk(rgb), clipped)

\* ColorLabApp._apply_rgb
apply_rgb(app, rgb_norm, source, clipped) ==
    apply_clamped(app, <<clamp01(rgb_norm[1]), clamp01(rgb_norm[2]), clamp01(rgb_norm[3])>>,
                  source, clipped)

\* the candidate colour a handler gave _apply_rgb
with_candidate(r, candidate) == [r EXCEPT !.candidate = candidate]

\* ColorLabApp.__init__, ending with _apply_rgb(self.rgb, source=None,
\* clipped=False)
ColorLabApp ==
    with_candidate(
        apply_rgb([rgb |-> <<I(1), I(0), I(0)>>,
                   panels |-> [p \in PanelIds |->
                                  IF p = "panel_cmyk" THEN ModelPanel("CMYK")
                                  ELSE IF p = "panel_rgb" THEN ModelPanel("RGB")
                                  ELSE ModelPanel("HLS")],
                   hex_edit |-> srgb_to_hex(<<I(1), I(0), I(0)>>),
                   hex_big |-> srgb_to_hex(<<I(1), I(0), I(0)>>),
                   preview |-> <<>>,
                   info_label |-> <<>>,
                   warning_label |-> "",
                   status |-> ""],
                  <<I(1), I(0), I(0)>>, "None", FALSE),
        <<I(1), I(0), I(0)>>)

\* a handler that reports the clamp of an out-of-range colour
clipped_if_clamped(rgb) ==
    <<clamp01(rgb[1]), clamp01(rgb[2]), clamp01(rgb[3])>> # rgb

\* the clipped=False that _hex_entered gives _apply_rgb
hex_clipped(rgb) == FALSE

\* a failure that resets the colour to black
hex_failed_resets(app) ==
    apply_rgb(app, <<I(0), I(0), I(0)>>, "None", FALSE).app

\* the except branch of _hex_entered: a message in the status bar, no more
hex_failed(app) == [app EXCEPT !.status = "bad hex"]

\* _hex_entered after the try block
hex_parsed(app, parsed) ==
    IF parsed.err # "none" THEN Result(hex_failed(app), 0, 0, <<>>, parsed.err)
    ELSE with_candidate(apply_rgb(app, parsed.val, "None", hex_clipped(parsed.val)),
                        parsed.val)

\* ColorLabApp._hex_entered with txt the text of hex_edit
hex_entered(app, txt) ==
    hex_parsed([app EXCEPT !.hex_edit = txt], hex_to_srgb(strip(txt)))

\* ColorLabApp._pick_color; color is what QColorDialog.getColor returns
pick_color(app, color) ==
    IF color.valid
    THEN with_candidate(
            apply_rgb(app, <<Q(color.red, 255), Q(color.green, 255), Q(color.blue, 255)>>,
                      "None", FALSE),
            <<Q(color.red, 255), Q(color.green, 255), Q(color.blue, 255)>>)
    ELSE Result(app, 0, 0, <<>>, "none")

\* _panel_changed after `rgb_norm, clipped = panel.to_srgb()`
panel_read(app, panel, r) ==
    IF r.err # "none" THEN Result(app, 0, 0, <<>>, r.err)
    ELSE with_candidate(apply_rgb(app, r.val.rgb, panel, r.val.clipped), r.val.rgb)

\* ColorLabApp._panel_changed
panel_changed(app, panel) == panel_read(app, panel, to_srgb(app.panels[panel]))

\* a slot of modelChanged that reads the rebuilt panel back
model_changed_reads(app, panel) == panel_changed(app, panel)

model_refreshed(app, panel, r) ==
    Result([app EXCEPT !.panels[panel] = r.panel], 0, r.any, <<>>, r.err)

\* the slot of a panel's modelChanged signal: panel.set_from_srgb(self.rgb)
model_changed(app, panel) ==
    model_refreshed(app, panel, set_from_srgb(app.panels[panel], app.rgb))

\* ------------------------------------------------------------------------
\* State
\* ------------------------------------------------------------------------
VARIABLES
    rgb,            \* ColorLabApp.rgb, the canonical colour
    panels,         \* panel_cmyk, panel_rgb, panel_hls
    hex_edit,       \* text of the HEX line edit
    hex_big,        \* text of the big HEX label
    preview,        \* background colour of the preview frame
    info_label,     \* the numbers shown in the info label
    warning_label,  \* text of the clipping warning
    status,         \* last message given to the status bar
    last,           \* history: the last event and the last applied edit
    edits,          \* history: number of user events so far
    arg,            \* argument of a call of a conversion function
    res             \* the call made on arg and what it returned

vars == <<rgb, panels, hex_edit, hex_big, preview, info_label, warning_label, status,
          last, edits, arg, res>>

App ==
    [rgb |-> rgb, panels |-> panels, hex_edit |-> hex_edit, hex_big |-> hex_big,
     preview |-> preview, info_label |-> info_label,
     warning_label |-> warning_label, status |-> status]

Becomes(a) ==
    /\ rgb' = a.rgb
    /\ panels' = a.panels
    /\ hex_edit' = a.hex_edit
    /\ hex_big' = a.hex_big
    /\ preview' = a.preview
    /\ info_label' = a.info_label
    /\ warning_label' = a.warning_label
    /\ status' = a.status

Starts(a) ==
    /\ rgb = a.rgb
    /\ panels = a.panels
    /\ hex_edit = a.hex_edit
    /\ hex_big = a.hex_big
    /\ preview = a.preview
    /\ info_label = a.info_label
    /\ warning_label = a.warning_label
    /\ status = a.status

NoArg == [kind |-> "none", val |-> <<>>]
NoCall == [fn |-> "none", name |-> "", err |-> "none", val |-> <<>>]

\* kind, panel, model: the event, and the panel and model it concerns;
\* source, candidate, values: the panel the last applied edit came from ("None"
\* when no panel still holds its own values), the colour that edit gave
\* _apply_rgb and the values the source panel held then; applies, reentries:
\* as in Result, for the event
Event(kind, panel, model, source, candidate, values, applies, reentries) ==
    [kind |-> kind, panel |-> panel, model |-> model, source |-> source,
     candidate |-> candidate, values |-> values, applies |-> applies,
     reentries |-> reentries]

\* an event that applied no edit: the last applied edit stays on record
NoEdit(kind, r) ==
    [last EXCEPT !.kind = kind, !.panel = "None", !.model = "",
                 !.applies = r.applies, !.reentries = r.reentries]

Init ==
    /\ \E r \in {ColorLabApp} :
          /\ Starts(r.app)
          /\ last = Event("start", "None", "", "None", r.candidate, <<>>,
                          r.applies, r.reentries)
    /\ edits = 0
    /\ arg = NoArg
    /\ res = NoCall

\* ------------------------------------------------------------------------
\* User events
\* ------------------------------------------------------------------------
\* slider positions a user moves a channel to
Positions(spec) ==
    {(spec.vmax * spec.slider_scale * k) \div Levels : k \in 0..Levels}

\* texts a user commits in the HEX field
HexTexts ==
    { <<" ", "#", "3", "3", "6", "6", "9", "9", " ">>,
      <<"0", "0", "f", "f", "8", "0">>,
      <<"-", "1", "F", "F", "+", "3">>,
      <<"1", "2", "3", "4", "5">>,
      <<"G", "G", "0", "0", "0", "0">> }

\* what the colour dialog returns: a colour, or an invalid one when cancelled
PickedColors ==
    { [valid |-> TRUE, red |-> 255, green |-> 64, blue |-> 0],
      [valid |-> TRUE, red |-> 10, green |-> 200, blue |-> 200],
      [valid |-> FALSE, red |-> 0, green |-> 0, blue |-> 0] }

\* denominator of v / vmax
FractionDen(cc) == Q(cc.spin[1], cc.spin[2] * cc.spec.vmax)[2]

\* whether the product of the denominators from control i on, times acc,
\* stays within MaxDenominator
RECURSIVE DenWithin(_, _, _)
DenWithin(controls, i, acc) ==
    IF acc > MaxDenominator THEN FALSE
    ELSE IF i > Len(controls) THEN TRUE
    ELSE DenWithin(controls, i + 1, acc * FractionDen(controls[i]))

\* the panel's values keep the exact arithmetic of its conversion small
Representable(panel) ==
    panel.current_model = "RGB" \/ DenWithin(panel.controls, 1, 1)

\* n anyValueChanged signals of a panel, each calling _panel_changed
RECURSIVE deliver(_, _, _)
delivered(r, rest) ==
    Result(rest.app, r.applies + rest.applies, r.reentries + rest.reentries,
           r.candidate, IF r.err # "none" THEN r.err ELSE rest.err)
deliver_rest(r, panel, n) == delivered(r, deliver(r.app, panel, n))
deliver(app, panel, n) ==
    IF n = 0 THEN Result(app, 0, 0, <<>>, "none")
    ELSE deliver_rest(panel_changed(app, panel), panel, n - 1)

\* the user changed control i of panel p and the control's handler gave r
Edited(p, i, r) ==
    /\ Representable([panels[p] EXCEPT !.controls[i] = r.cc])
    /\ \E d \in {deliver([App EXCEPT !.panels[p].controls[i] = r.cc], p,
                         on_any(panels[p].block, r.emits))} :
          /\ Becomes(d.app)
          /\ last' = Event("panel", p, panels[p].current_model, p, d.candidate,
                           panel_values([panels[p] EXCEPT !.controls[i] = r.cc]),
                           d.applies, d.reentries)
    /\ edits' = edits + 1
    /\ UNCHANGED <<arg, res>>

\* the user types the value u / slider_scale into the spin box of channel i
\* of panel p
UserSpin(p, i, u) ==
    /\ edits < MaxEdits
    /\ Q(u, panels[p].controls[i].spec.slider_scale) # panels[p].controls[i].spin
    /\ \E r \in {on_spin([panels[p].controls[i] EXCEPT
                             !.spin = Q(u, panels[p].controls[i].spec.slider_scale)],
                         Q(u, panels[p].controls[i].spec.slider_scale))} :
          Edited(p, i, r)

\* the user drags the slider of channel i of panel p to u
UserSlider(p, i, u) ==
    /\ edits < MaxEdits
    /\ u # panels[p].controls[i].slider
    /\ \E r \in {on_slider([panels[p].controls[i] EXCEPT !.slider = u], u)} :
          Edited(p, i, r)

\* the user presses return in the HEX field holding txt
HexCommit(txt) ==
    /\ edits < MaxEdits
    /\ \E r \in {hex_entered(App, txt)} :
          /\ Becomes(r.app)
          /\ last' = IF r.err = "none"
                     THEN Event("hex", "None", "", "None", r.candidate, <<>>,
                                r.applies, r.reentries)
                     ELSE NoEdit("hex_fail", r)
    /\ edits' = edits + 1
    /\ UNCHANGED <<arg, res>>

\* the user closes the colour dialog with color
Pick(color) ==
    /\ edits < MaxEdits
    /\ \E r \in {pick_color(App, color)} :
          /\ Becomes(r.app)
          /\ last' = IF color.valid
                     THEN Event("pick", "None", "", "None", r.candidate, <<>>,
                                r.applies, r.reentries)
                     ELSE NoEdit("pick_cancel", r)
    /\ edits' = edits + 1
    /\ UNCHANGED <<arg, res>>

\* the user picks model m in the combo box of panel p: _rebuild, then the slot
\* of modelChanged
ModelSwitch(p, m) ==
    /\ edits < MaxEdits
    /\ m # panels[p].current_model
    /\ \E r \in {model_changed([App EXCEPT !.panels[p] = rebuild(panels[p], m)], p)} :
          /\ Becomes(r.app)
          /\ last' = [last EXCEPT
                         !.kind = "switch", !.panel = p, !.model = m,
                         !.source = IF last.source = p THEN "None" ELSE @,
                         !.values = IF last.source = p THEN <<>> ELSE @,
                         !.applies = r.applies, !.reentries = r.reentries]
    /\ edits' = edits + 1
    /\ UNCHANGED <<arg, res>>

Next ==
    \/ \E p \in PanelIds : \E i \in 1..Len(panels[p].controls) :
          \E u \in Positions(panels[p].controls[i].spec) : UserSpin(p, i, u)
    \/ \E p \in PanelIds : \E i \in 1..Len(panels[p].controls) :
          \E u \in Positions(panels[p].controls[i].spec) : UserSlider(p, i, u)
    \/ \E txt \in HexTexts : HexCommit(txt)
    \/ \E color \in PickedColors : Pick(color)
    \/ \E p \in PanelIds : \E m \in Models : ModelSwitch(p, m)

Spec == Init /\ [][Next]_vars

\* ------------------------------------------------------------------------
\* Calls of the conversion functions of models.py on their own
\* ------------------------------------------------------------------------
Arg(kind, val) == [kind |-> kind, val |-> val]
Call(fn, name, r) == [fn |-> fn, name |-> name, err |-> r.err, val |-> r.val]

\* channel values in and out of [0, 1]
RgbChannels == {Q(-1, 2), I(0), Q(1, 510), Q(1, 3), Q(1, 2), I(1), Q(3, 2), I(2), I(3)}
RgbArgs ==
    {<<a, b, c>> : a \in RgbChannels, b \in RgbChannels, c \in RgbChannels}
    \cup {<<Q(k, 255), Q(255 - k, 255), I(k % 2)>> : k \in 0..255}

HlsArgs ==
    {<<h, l, s>> :
        h \in {I(-30), I(0), I(45), I(60), I(120), I(200), Q(35999, 100), I(360), I(400)},
        l \in {I(-10), I(0), I(25), I(50), I(75), I(100), I(150)},
        s \in {I(-5), I(0), I(50), I(100), I(200)}}

CmykChannels == {I(-10), I(0), I(40), I(100), I(150)}
CmykArgs ==
    {<<c, m, y, k>> : c \in CmykChannels, m \in CmykChannels,
                      y \in CmykChannels, k \in CmykChannels}

UiChannels == {I(-5), I(0), Q(255, 2), I(255), I(300)}
UiArgs == {<<r, g, b>> : r \in UiChannels, g \in UiChannels, b \in UiChannels}

Names == Models \cup {"XYZ"}

\* values a caller gives convert_to_srgb with a model name
PanelArgs ==
    {[name |-> "RGB", values |-> v] : v \in UiArgs}
    \cup {[name |-> "CMYK", values |-> v] : v \in CmykArgs}
    \cup {[name |-> "HLS", values |-> v] : v \in HlsArgs}
    \cup {[name |-> "XYZ", values |-> <<I(0), I(50), I(100)>>]}

HexChars == {"0", "9", "A", "f", "+", "-", " ", "_", "G", "#"}
HexTails ==
    { <<"0", "0", "F", "f">>, <<"+", "3", "1", " ">>, <<"-", "2", "8", "0">>,
      <<"0", "0", "0">>, <<"0", "0", "0", "0", "0">> }
HexArgs ==
    {pre \o <<a, b>> \o t :
        pre \in {<<>>, <<"#">>, <<" ", "#">>}, a \in HexChars, b \in HexChars,
        t \in HexTails}
    \cup {<<>>, <<"#">>, <<"#", "0", "0", "F", "F", "0", "0", " ">>}

\* the argument of one call: what kind of value it is, and the value
TakesArg ==
    \/ \E v \in RgbArgs : arg = Arg("rgb", v)
    \/ \E v \in HlsArgs : arg = Arg("hls", v)
    \/ \E v \in CmykArgs : arg = Arg("cmyk", v)
    \/ \E v \in PanelArgs : arg = Arg("panel", v)
    \/ \E v \in HexArgs : arg = Arg("hex", v)

InitPure ==
    /\ \E r \in {ColorLabApp} :
          /\ Starts(r.app)
          /\ last = Event("start", "None", "", "None", r.candidate, <<>>,
                          r.applies, r.reentries)
    /\ edits = 0
    /\ TakesArg
    /\ res = NoCall

Returns(r) ==
    /\ res = NoCall
    /\ res' = r
    /\ UNCHANGED <<rgb, panels, hex_edit, hex_big, preview, info_label,
                   warning_label, status, last, edits, arg>>

CallSrgbToHls ==
    arg.kind = "rgb" /\ Returns(Call("srgb_to_hls", "", srgb_to_hls(arg.val)))
CallSrgbToCmyk ==
    arg.kind = "rgb" /\ Returns(Call("srgb_to_cmyk", "", Ok(srgb_to_cmyk(arg.val))))
CallSrgbToHex ==
    arg.kind = "rgb" /\ Returns(Call("srgb_to_hex", "", Ok(srgb_to_hex(arg.val))))
\* hex_to_srgb(srgb_to_hex(rgb)); val is the hex text, then what came back
round_trip(hex, back) == [err |-> back.err, val |-> <<hex, back.val>>]
CallHexRoundTrip ==
    arg.kind = "rgb"
    /\ \E hex \in {srgb_to_hex(arg.val)} :
          Returns(Call("hex_round_trip", "", round_trip(hex, hex_to_srgb(hex))))
CallConvertFromSrgb(name) ==
    arg.kind = "rgb"
    /\ Returns(Call("convert_from_srgb", name, convert_from_srgb(name, arg.val)))
CallHlsToSrgb ==
    arg.kind = "hls" /\ Returns(Call("hls_to_srgb", "", Ok(hls_to_srgb(arg.val))))
CallCmykToSrgb ==
    arg.kind = "cmyk" /\ Returns(Call("cmyk_to_srgb", "", Ok(cmyk_to_srgb(arg.val))))
CallConvertToSrgb ==
    arg.kind = "panel"
    /\ Returns(Call("convert_to_srgb", arg.val.name,
                    convert_to_srgb(arg.val.name, arg.val.values)))
CallHexToSrgb ==
    arg.kind = "hex" /\ Returns(Call("hex_to_srgb", "", hex_to_srgb(arg.val)))

NextPure ==
    \/ CallSrgbToHls
    \/ CallSrgbToCmyk
    \/ CallSrgbToHex
    \/ CallHexRoundTrip
    \/ \E name \in Names : CallConvertFromSrgb(name)
    \/ CallHlsToSrgb
    \/ CallCmykToSrgb
    \/ CallConvertToSrgb
    \/ CallHexToSrgb

SpecPure == InitPure /\ [][NextPure]_vars

\* ------------------------------------------------------------------------
\* Properties of the application
\* ------------------------------------------------------------------------
Clamped(c) == <<clamp01(c[1]), clamp01(c[2]), clamp01(c[3])>>

\* the values convert_from_srgb(model, c) returns
Exact(model, c) == convert_from_srgb(model, c).val

\* C1: after any sequence of events the canonical colour is the clamped
\* candidate of the last applied edit; every panel other than the one that
\* edit came from holds exactly convert_from_srgb(its model, canonical), and
\* the originating panel still holds the values it had when it was edited;
\* with no originating panel all three panels are refreshed.
C1_PanelsRefreshed ==
    /\ rgb = Clamped(last.candidate)
    /\ \A p \in PanelIds :
          panel_values(panels[p]) =
              IF p = last.source THEN last.values
              ELSE Exact(panels[p].current_model, rgb)

\* a panel edit while another panel shows the same model: the other panel
\* was refreshed and differs from the untouched originating one
C1_Witness ==
    /\ last.kind = "panel"
    /\ last.applies = 1
    /\ \E q \in PanelIds \ {last.source} :
          /\ panels[q].current_model = panels[last.source].current_model
          /\ panel_values(panels[q]) # panel_values(panels[last.source])
          /\ panel_values(panels[q]) = Exact(panels[q].current_model, rgb)

\* C2: a model switch leaves the canonical colour, the clipping warning and
\* the other two panels unchanged; the switched panel shows the new model
\* with one control per channel of its spec list, holding
\* convert_from_srgb(new model, canonical).
C2_SwitchFrame ==
    [][last'.kind = "switch" =>
          /\ rgb' = rgb
          /\ warning_label' = warning_label
          /\ \A q \in PanelIds \ {last'.panel} : panels'[q] = panels[q]
          /\ panels'[last'.panel].current_model = last'.model
          /\ Len(panels'[last'.panel].controls) = Len(MODEL_SPECS[last'.model])
          /\ panel_values(panels'[last'.panel]) = Exact(last'.model, rgb)]_vars

\* a switch to CMYK after an edit that changed the colour
C2_Witness ==
    /\ last.kind = "switch"
    /\ last.model = "CMYK"
    /\ rgb # <<I(1), I(0), I(0)>>
    /\ Len(panels[last.panel].controls) = 4
    /\ panel_values(panels[last.panel]) = Exact("CMYK", rgb)

\* what a handler does in application a when panel p carries a model
\* identifier that MODEL_SPECS does not know
UnknownModelKeeps(a, p) ==
    /\ panel_changed(a, p).err = "ValueError"
    /\ panel_changed(a, p).app = a
    /\ model_changed(a, p).err = "ValueError"
    /\ model_changed(a, p).app = a

\* C3: a hex commit that fails changes neither the canonical colour nor any
\* panel's model or values (nor the warning); and in every reachable state a
\* handler run for a panel with an unknown model identifier raises ValueError
\* out of convert_to_srgb / convert_from_srgb and leaves the application as
\* it was.
C3_FailureKeepsState ==
    [][/\ last'.kind = "hex_fail" =>
             /\ rgb' = rgb
             /\ panels' = panels
             /\ warning_label' = warning_label
             /\ hex_big' = hex_big
       /\ \A p \in PanelIds :
             UnknownModelKeeps([App EXCEPT !.panels[p].current_model = "XYZ"], p)]_vars

\* a failed hex commit after an edit that changed the colour
C3_Witness ==
    /\ last.kind = "hex_fail"
    /\ status = "bad hex"
    /\ rgb # <<I(1), I(0), I(0)>>
    /\ rgb = Clamped(last.candidate)

\* C7: after an edit from an RGB or CMYK panel, a hex commit or the colour
\* picker the clipping warning is off, whatever the values and whatever
\* came before.
C7_NoClipOutsideHls ==
    (\/ last.kind \in {"hex", "pick"}
     \/ last.kind = "panel" /\ last.model \in {"RGB", "CMYK"})
    => warning_label = ""

\* a hex commit whose channels lie outside [0, 1] and were clamped
C7_Witness ==
    /\ last.kind = "hex"
    /\ Clamped(last.candidate) # last.candidate
    /\ rgb = Clamped(last.candidate)
    /\ warning_label = ""

\* C9: one user event replaces the canonical colour at most once; no refresh
\* of a panel emits anyValueChanged; every _block flag is False when the
\* event is done.
C9_NoFeedback ==
    /\ last.applies <= 1
    /\ last.reentries = 0
    /\ \A p \in PanelIds :
          /\ ~panels[p].block
          /\ \A i \in 1..Len(panels[p].controls) : ~panels[p].controls[i].block

\* a panel edit that was applied once and refreshed the other panels
C9_Witness ==
    /\ last.kind = "panel"
    /\ last.applies = 1
    /\ last.reentries = 0
    /\ rgb # <<I(1), I(0), I(0)>>
    /\ \A q \in PanelIds \ {last.source} :
          panel_values(panels[q]) = Exact(panels[q].current_model, rgb)

\* ------------------------------------------------------------------------
\* Properties of the conversion functions
\* ------------------------------------------------------------------------
InRange(lo, hi, x) == RLe(I(lo), x) /\ RLe(x, I(hi))

\* s without one leading '#', if it has one
WithoutHash(s) == IF Len(s) > 0 /\ s[1] = "#" THEN Tail(s) ELSE s

SixHexDigits(t) == Len(t) = 6 /\ \A i \in 1..6 : IsHexDigit(t[i])

\* the value 0..255 of the pair of digits at i, over 255
PairOver255(t, i) == Q(16 * HexVal(t[i]) + HexVal(t[i + 1]), 255)

PairsOver255(t) == <<PairOver255(t, 1), PairOver255(t, 3), PairOver255(t, 5)>>

\* C4: hex_to_srgb accepts a string if and only if exactly 6 hex digits
\* remain after one optional leading '#'; every other shape raises; on
\* acceptance each channel is the value of its pair of digits over 255.
C4_HexAcceptance ==
    res.fn = "hex_to_srgb" =>
        IF SixHexDigits(WithoutHash(arg.val))
        THEN res.err = "none" /\ res.val = PairsOver255(WithoutHash(arg.val))
        ELSE res.err = "ValueError"

\* C5: no conversion called with numbers, and with a known model name where
\* it takes one, raises.
C5_NoNumericFailure ==
    (res.fn \notin {"none", "hex_to_srgb", "hex_round_trip"} /\ res.name # "XYZ")
    => res.err = "none"

\* C6: every channel a conversion returns lies in its declared range: RGB in
\* [0, 1], hue in [0, 360), lightness, saturation and C, M, Y, K in [0, 100].
C6_ClampingInvariant ==
    /\ (res.fn \in {"hls_to_srgb", "cmyk_to_srgb", "hex_to_srgb"} /\ res.err = "none")
       => \A i \in 1..3 : InRange(0, 1, res.val[i])
    /\ (res.fn = "srgb_to_hls" /\ res.err = "none")
       => /\ RLe(I(0), res.val[1]) /\ RLt(res.val[1], I(360))
          /\ InRange(0, 100, res.val[2])
          /\ InRange(0, 100, res.val[3])
    /\ res.fn = "srgb_to_cmyk"
       => \A i \in 1..4 : InRange(0, 100, res.val[i])

\* C8: for every colour in [0, 1]^3, srgb_to_hex gives '#' and six upper-case
\* hex digits, hex_to_srgb accepts them, and each channel that comes back is
\* round(channel * 255) / 255; a channel k / 255 comes back unchanged.
C8_HexRoundTrip ==
    (res.fn = "hex_round_trip" /\ \A i \in 1..3 : InRange(0, 1, arg.val[i])) =>
        /\ Len(res.val[1]) = 7
        /\ res.val[1][1] = "#"
        /\ \A j \in 2..7 : \E d \in 1..16 : res.val[1][j] = UpperDigits[d]
        /\ res.err = "none"
        /\ \A i \in 1..3 :
              /\ res.val[2][i] = Q(PyRound(RMul(arg.val[i], I(255))), 255)
              /\ (\E k \in 0..255 : arg.val[i] = Q(k, 255)) => res.val[2][i] = arg.val[i]

\* the round trip of a colour with a channel half way between two bytes and
\* a channel that is a whole number of 255ths
C8_Witness ==
    /\ res.fn = "hex_round_trip"
    /\ arg.val = <<Q(1, 2), Q(1, 3), I(1)>>
    /\ res.val[1] = <<"#", "8", "0", "5", "5", "F", "F">>
    /\ res.val[2] = <<Q(128, 255), Q(1, 3), I(1)>>

\* C10: for every (h, l, s), in range or not, hls_to_srgb returns channels
\* inside [0, 1], and convert_to_srgb('HLS', ...) returns them with clipped
\* False.
C10_HlsNeverClips ==
    /\ res.fn = "hls_to_srgb" => \A i \in 1..3 : InRange(0, 1, res.val[i])
    /\ (res.fn = "convert_to_srgb" /\ res.name = "HLS")
       => /\ res.err = "none"
          /\ ~res.val.clipped
          /\ \A i \in 1..3 : InRange(0, 1, res.val.rgb[i])

\* convert_to_srgb('HLS', [0, 50, 200]): saturation beyond 100
C10_Witness ==
    /\ res.fn = "convert_to_srgb"
    /\ arg.val = [name |-> "HLS", values |-> <<I(0), I(50), I(200)>>]
    /\ res.val = [rgb |-> <<I(1), I(0), I(0)>>, clipped |-> FALSE]

====
